---- MODULE Spec2Model ----
(***************************************************************************)
(* Model of src/main.py: process_video (the frame loop), warp_triangles    *)
(* (the triangle compositor), get_delaunay_triangles and match_histograms. *)
(*                                                                         *)
(* Images are single-channel grids of ImgW x ImgH pixels with intensity    *)
(* levels 0..MaxLevel; the code's three channels are treated alike         *)
(* (cv2.split / zip / cv2.merge), so one channel stands for each of them.  *)
(* The 256 levels of the code are scaled down to Levels.                   *)
(***************************************************************************)
EXTENDS Integers, Sequences, FiniteSets, TLC

VARIABLES
    \* ---- process_video ----
    pc,                  \* position in process_video
    src_decodes,         \* input: cv2.imread decodes the static image
    src_face,            \* input: what the detector finds in the static image
    video_opens,         \* input: cap.isOpened()
    video,               \* input: the frames of the target video, in order
    static_img,          \* line 110
    static_landmarks,    \* line 111
    static_delaunay_tri, \* line 117
    cap,                 \* number of frames cap.read() has delivered
    frame,               \* line 136: index into video of the current frame
    frame_landmarks,     \* line 140
    warped_frame,        \* line 145
    tri_idx,             \* position of the for-loop of line 146
    written,             \* frames handed to video_writer.write, in order
    printed,             \* messages printed, in order
    error,               \* the exception that left process_video and the function
                         \* that raised it, or NoError
    \* ---- match_histograms, one channel pair ----
    hpc,                 \* position in match_histograms
    s_channel,           \* flattened source channel
    r_channel,           \* flattened reference channel
    s_hist,              \* line 85
    r_hist,              \* line 86
    g,                   \* line 94
    i,                   \* loop variable of line 95
    lookup_table,        \* line 93
    matched_channel      \* line 101

pvars == <<pc, src_decodes, src_face, video_opens, video, static_img,
           static_landmarks, static_delaunay_tri, cap, frame, frame_landmarks,
           warped_frame, tri_idx, written, printed, error>>
hvars == <<hpc, s_channel, r_channel, s_hist, r_hist, g, i, lookup_table,
           matched_channel>>
vars == <<pvars, hvars>>

(***************************************************************************)
(* Bounds                                                                  *)
(***************************************************************************)
Levels == 3
ImgW == 3
ImgH == 3
MaxFrames == 3
MaxPixels == 3

MaxLevel == Levels - 1
LevelSet == 0..MaxLevel

\* what get_landmarks returns: None, or the list of landmark points
None == [found |-> FALSE, points |-> <<>>]
Landmarks(points) == [found |-> TRUE, points |-> points]

(***************************************************************************)
(* match_histograms (lines 73-106), one channel                            *)
(***************************************************************************)
RECURSIVE Cum(_, _)
\* np.cumsum(hist)[v]
Cum(hist, v) == IF v < 0 THEN 0 ELSE hist[v] + Cum(hist, v - 1)

\* np.sum(hist)
HistSum(hist) == Cum(hist, MaxLevel)

\* np.histogram(channel.flatten(), 256, [0, 256]): one bin per level
Histogram(channel) ==
    [v \in LevelSet |-> Cardinality({k \in DOMAIN channel : channel[k] = v})]

\* r_cdf[gg] < s_cdf[ii], with cdf = cumsum / sum compared as fractions.
\* (The two quotients are doubles of ratios of pixel counts; distinct ratios
\* with denominators below 2^26 differ by more than one ulp, so the float
\* comparison agrees with the exact one.)
CdfLess(rh, sh, gg, ii) ==
    Cum(rh, gg) * HistSum(sh) < Cum(sh, ii) * HistSum(rh)

\* a plausible slip: <= for < in the scan condition
WhileCondLe(rh, sh, gg, ii) ==
    /\ Cum(rh, gg) * HistSum(sh) <= Cum(sh, ii) * HistSum(rh)
    /\ gg < MaxLevel

\* a plausible slip: the clamp one level too low
WhileCondClampLow(rh, sh, gg, ii) ==
    /\ CdfLess(rh, sh, gg, ii)
    /\ gg < MaxLevel - 1

\* line 96: while r_cdf[g] < s_cdf[i] and g < 255
WhileCond(rh, sh, gg, ii) ==
    /\ CdfLess(rh, sh, gg, ii)
    /\ gg < MaxLevel

\* a plausible slip: index and value exchanged in the store
StoreLookupSwapped(table, ii, gg) == [table EXCEPT ![gg] = ii]

\* line 98: lookup_table[i] = g
StoreLookup(table, ii, gg) == [table EXCEPT ![ii] = gg]

\* line 93: np.zeros(256)
ZeroTable == [v \in LevelSet |-> 0]

\* np.uint8(x) on a value of the level range: wraps modulo the level count
Uint8(v) == v % Levels

\* line 101: cv2.LUT(np.uint8(s_channel), np.uint8(lookup_table))
ApplyLUT(channel, table) ==
    [k \in DOMAIN channel |-> Uint8(table[Uint8(channel[k])])]

RECURSIVE ScanFrom(_, _, _, _)
\* lines 96-97, run to the end for one i
ScanFrom(rh, sh, gg, ii) ==
    IF WhileCond(rh, sh, gg, ii) THEN ScanFrom(rh, sh, gg + 1, ii) ELSE gg

RECURSIVE BuildTable(_, _, _, _, _)
\* lines 95-98, run from level ii on
BuildTable(rh, sh, gg, ii, table) ==
    IF ii > MaxLevel THEN table
    ELSE LET g2 == ScanFrom(rh, sh, gg, ii)
         IN  BuildTable(rh, sh, g2, ii + 1, StoreLookup(table, ii, g2))

\* lines 85-101 for one channel pair
MatchChannel(source, reference) ==
    LET sh == Histogram(source)
        rh == Histogram(reference)
    IN  ApplyLUT(source, BuildTable(rh, sh, 0, 0, ZeroTable))

(***************************************************************************)
(* match_histograms as a step machine over one channel pair                *)
(***************************************************************************)
RECURSIVE SeqsUpTo(_, _)
SeqsUpTo(S, n) ==
    IF n = 0 THEN {<<>>}
    ELSE LET shorter == SeqsUpTo(S, n - 1)
         IN  shorter \cup {Append(s, x) : s \in {t \in shorter : Len(t) = n - 1}, x \in S}

Channels == SeqsUpTo(LevelSet, MaxPixels) \ {<<>>}

HistIdle ==
    /\ hpc = "idle"
    /\ s_channel = <<>>
    /\ r_channel = <<>>
    /\ s_hist = ZeroTable
    /\ r_hist = ZeroTable
    /\ g = 0
    /\ i = 0
    /\ lookup_table = ZeroTable
    /\ matched_channel = <<>>

HistInit ==
    /\ hpc = "hist"
    /\ s_channel \in Channels
    /\ r_channel \in Channels
    /\ s_hist = ZeroTable
    /\ r_hist = ZeroTable
    /\ g = 0
    /\ i = 0
    /\ lookup_table = ZeroTable
    /\ matched_channel = <<>>

\* lines 85-94
ComputeHistograms ==
    /\ hpc = "hist"
    /\ s_hist' = Histogram(s_channel)
    /\ r_hist' = Histogram(r_channel)
    /\ lookup_table' = ZeroTable
    /\ g' = 0
    /\ i' = 0
    /\ hpc' = "scan"
    /\ UNCHANGED <<s_channel, r_channel, matched_channel>>

\* lines 96-97: one iteration of the while loop
ScanStep ==
    /\ hpc = "scan"
    /\ i <= MaxLevel
    /\ WhileCond(r_hist, s_hist, g, i)
    /\ g' = g + 1
    /\ UNCHANGED <<hpc, s_channel, r_channel, s_hist, r_hist, i, lookup_table,
                   matched_channel>>

\* line 98, and the for loop's advance
AssignStep ==
    /\ hpc = "scan"
    /\ i <= MaxLevel
    /\ ~WhileCond(r_hist, s_hist, g, i)
    /\ lookup_table' = StoreLookup(lookup_table, i, g)
    /\ i' = i + 1
    /\ UNCHANGED <<hpc, s_channel, r_channel, s_hist, r_hist, g, matched_channel>>

\* line 101
LutStep ==
    /\ hpc = "scan"
    /\ i > MaxLevel
    /\ matched_channel' = ApplyLUT(s_channel, lookup_table)
    /\ hpc' = "done"
    /\ UNCHANGED <<s_channel, r_channel, s_hist, r_hist, g, i, lookup_table>>

(***************************************************************************)
(* Images, rectangles and numpy slices                                     *)
(***************************************************************************)
Pixels == (0..(ImgW - 1)) \X (0..(ImgH - 1))

SetMin(S) == CHOOSE m \in S : \A x \in S : m <= x
SetMax(S) == CHOOSE m \in S : \A x \in S : x <= m

\* cv2.boundingRect of three integer points: (x, y, width, height)
BoundingRect(tri) ==
    LET xs == {tri[k][1] : k \in 1..3}
        ys == {tri[k][2] : k \in 1..3}
    IN  <<SetMin(xs), SetMin(ys),
          SetMax(xs) - SetMin(xs) + 1, SetMax(ys) - SetMin(ys) + 1>>

\* how numpy places one bound of a slice a:b on an axis of length n:
\* a negative bound counts from the end, and every bound is clipped to 0..n
SliceBound(k, n) ==
    IF k < 0 THEN (IF k + n < 0 THEN 0 ELSE k + n)
    ELSE (IF k > n THEN n ELSE k)

\* first index and length of array[a:b] on an axis of length n
SliceLo(a, b, n) == SliceBound(a, n)
SliceLen(a, b, n) ==
    IF SliceBound(b, n) > SliceBound(a, n)
    THEN SliceBound(b, n) - SliceBound(a, n) ELSE 0

\* img[r[1]:r[1]+r[3], r[0]:r[0]+r[2]] as a view: origin and shape
RectView(r) ==
    [x0 |-> SliceLo(r[1], r[1] + r[3], ImgW),
     w  |-> SliceLen(r[1], r[1] + r[3], ImgW),
     y0 |-> SliceLo(r[2], r[2] + r[4], ImgH),
     h  |-> SliceLen(r[2], r[2] + r[4], ImgH)]

(***************************************************************************)
(* apply_affine_transform (lines 17-20)                                    *)
(***************************************************************************)
Cross(ax, ay, bx, by) == ax * by - ay * bx

\* twice the signed area of a triangle
Area2(t) ==
    Cross(t[2][1] - t[1][1], t[2][2] - t[1][2], t[3][1] - t[1][1], t[3][2] - t[1][2])

RECURSIVE Reflect101(_, _)
\* cv2.BORDER_REFLECT_101 on an axis of length n
Reflect101(p, n) ==
    IF n = 1 THEN 0
    ELSE IF p < 0 THEN Reflect101(-p, n)
    ELSE IF p >= n THEN Reflect101(2 * (n - 1) - p, n)
    ELSE p

\* rounding of a non-negative quotient to the nearest level (saturate_cast)
RoundDiv(a, b) == (2 * a + b) \div (2 * b)

\* The pixel of the source view v of image img at view coordinates (x, y),
\* extrapolated by reflection outside the view.
ViewAt(img, v, x, y) ==
    img[<<v.x0 + Reflect101(x, v.w), v.y0 + Reflect101(y, v.h)>>]

\* cv2.warpAffine(src, getAffineTransform(src_tri, dst_tri), size,
\* INTER_LINEAR, BORDER_REFLECT_101) at destination pixel (x, y): the source
\* is sampled at the preimage of (x, y) under the affine map taking src_tri to
\* dst_tri, bilinearly.  A singular system (either triangle degenerate) leaves
\* the zero matrix, whose inverse warpAffine takes as zero: every destination
\* pixel samples source position (0, 0).  (No triangle of the inputs below
\* is degenerate: source triangles are Delaunay faces.)
AffineSample(img, v, src_tri, dst_tri, x, y) ==
    LET d  == Area2(dst_tri)
        ds == Area2(src_tri)
    IN  IF d = 0 \/ ds = 0 THEN ViewAt(img, v, 0, 0)
        ELSE
        LET sg == IF d < 0 THEN -1 ELSE 1
            dd == sg * d
            c2 == sg * Cross(x - dst_tri[1][1], y - dst_tri[1][2],
                             dst_tri[3][1] - dst_tri[1][1], dst_tri[3][2] - dst_tri[1][2])
            c3 == sg * Cross(dst_tri[2][1] - dst_tri[1][1], dst_tri[2][2] - dst_tri[1][2],
                             x - dst_tri[1][1], y - dst_tri[1][2])
            nx == src_tri[1][1] * dd + c2 * (src_tri[2][1] - src_tri[1][1])
                                     + c3 * (src_tri[3][1] - src_tri[1][1])
            ny == src_tri[1][2] * dd + c2 * (src_tri[2][2] - src_tri[1][2])
                                     + c3 * (src_tri[3][2] - src_tri[1][2])
            xi == nx \div dd
            yi == ny \div dd
            fx == nx % dd
            fy == ny % dd
        IN  RoundDiv((dd - fx) * (dd - fy) * ViewAt(img, v, xi, yi)
                     + fx * (dd - fy) * ViewAt(img, v, xi + 1, yi)
                     + (dd - fx) * fy * ViewAt(img, v, xi, yi + 1)
                     + fx * fy * ViewAt(img, v, xi + 1, yi + 1),
                     dd * dd)

(***************************************************************************)
(* warp_triangles (lines 22-43)                                            *)
(***************************************************************************)
\* lines 30-33: a triangle in coordinates local to rectangle r
LocalTri(tri, r) == [k \in 1..3 |-> <<tri[k][1] - r[1], tri[k][2] - r[2]>>]

\* cv2.fillConvexPoly(mask, tri, 1.0) at mask pixel (x, y): 1 on the closed
\* triangle (edges and vertices included), 0 elsewhere.  lineType 16 on a
\* float32 mask is drawn without anti-aliasing, so the mask is binary.
MaskAt(tri, x, y) ==
    LET e1 == Cross(tri[2][1] - tri[1][1], tri[2][2] - tri[1][2],
                    x - tri[1][1], y - tri[1][2])
        e2 == Cross(tri[3][1] - tri[2][1], tri[3][2] - tri[2][2],
                    x - tri[2][1], y - tri[2][2])
        e3 == Cross(tri[1][1] - tri[3][1], tri[1][2] - tri[3][2],
                    x - tri[3][1], y - tri[3][2])
    IN  IF \/ (e1 >= 0 /\ e2 >= 0 /\ e3 >= 0)
           \/ (e1 <= 0 /\ e2 <= 0 /\ e3 <= 0)
        THEN 1 ELSE 0

\* a plausible slip: line 42 left out, the patch is added unmasked
MaskedPatchUnmasked(patch, mask) == patch

\* line 42: img2_rect = img2_rect * mask
MaskedPatch(patch, mask) == patch * mask

\* line 43, one pixel: img2 * (1.0 - mask) + img2_rect, stored back as uint8
Blend(old, mask, masked_patch) == Uint8(old * (1 - mask) + masked_patch)

\* numpy broadcasting on one axis of line 43: the slice of img2 has length s,
\* mask and patch have length m.  The product and the store go through when
\* the lengths agree, or when m = 1 and the slice is empty.
AxisFits(s, m) == s = m \/ (m = 1 /\ s = 0)

\* warp_triangles(img1, img2, tri1, tri2): what it raises and the two arrays
\* after the call.
WarpTriangles(img1, img2, tri1, tri2) ==
    LET r1 == BoundingRect(tri1)
        r2 == BoundingRect(tri2)
        tri1_rect == LocalTri(tri1, r1)
        tri2_rect == LocalTri(tri2, r2)
        v1 == RectView(r1)
        v2 == RectView(r2)
    IN  IF v1.w = 0 \/ v1.h = 0
        THEN [raised |-> "cv2.error", img1 |-> img1, img2 |-> img2]
        ELSE IF ~(AxisFits(v2.w, r2[3]) /\ AxisFits(v2.h, r2[4]))
        THEN [raised |-> "ValueError", img1 |-> img1, img2 |-> img2]
        ELSE
        [raised |-> "none",
         img1 |-> img1,
         img2 |-> [p \in Pixels |->
            IF /\ p[1] >= v2.x0 /\ p[1] < v2.x0 + v2.w
               /\ p[2] >= v2.y0 /\ p[2] < v2.y0 + v2.h
            THEN LET x == p[1] - v2.x0
                     y == p[2] - v2.y0
                     m == MaskAt(tri2_rect, x, y)
                 IN  Blend(img2[p], m,
                           MaskedPatch(AffineSample(img1, v1, tri1_rect, tri2_rect, x, y), m))
            ELSE img2[p]]]

(***************************************************************************)
(* get_delaunay_triangles (lines 45-71)                                    *)
(***************************************************************************)
\* whether point p lies in rect = (x, y, w, h): lines 58-60, and the bounds
\* check of cv2.Subdiv2D.insert
InRect(p, rect) ==
    /\ p[1] >= rect[1] /\ p[2] >= rect[2]
    /\ p[1] < rect[1] + rect[3] /\ p[2] < rect[2] + rect[4]

\* d lies strictly inside the circle through a, b, c
InCircle(a, b, c, d) ==
    LET ax == a[1] - d[1]
        ay == a[2] - d[2]
        bx == b[1] - d[1]
        by == b[2] - d[2]
        cx == c[1] - d[1]
        cy == c[2] - d[2]
        det == (ax * ax + ay * ay) * Cross(bx, by, cx, cy)
               - (bx * bx + by * by) * Cross(ax, ay, cx, cy)
               + (cx * cx + cy * cy) * Cross(ax, ay, bx, by)
        o == Area2(<<a, b, c>>)
    IN  (o > 0 /\ det > 0) \/ (o < 0 /\ det < 0)

\* the three outer vertices cv2.Subdiv2D puts around rect
VirtualVertices(rect) ==
    LET big == 3 * (IF rect[3] > rect[4] THEN rect[3] ELSE rect[4])
    IN  {<<rect[1] + big, rect[2]>>, <<rect[1], rect[2] + big>>,
         <<rect[1] - big, rect[2] - big>>}

\* subdiv.getTriangleList() after inserting points: the Delaunay faces of
\* the points (as vertex coordinates), and faces that use an outer vertex
TriangleList(rect, points) ==
    LET n == Len(points)
        first(k) == \A m \in 1..(k - 1) : points[m] # points[k]
        tri(t) == <<points[t[1]], points[t[2]], points[t[3]]>>
        faces == {t \in (1..n) \X (1..n) \X (1..n) :
                    /\ t[1] < t[2] /\ t[1] < t[3]
                    /\ first(t[1]) /\ first(t[2]) /\ first(t[3])
                    /\ Area2(tri(t)) > 0
                    /\ \A k \in 1..n :
                          ~InCircle(points[t[1]], points[t[2]], points[t[3]], points[k])}
        outer == {<<v, points[a], points[b]>> :
                    v \in VirtualVertices(rect), a, b \in 1..n}
    IN  {tri(t) : t \in faces} \cup {t \in outer : t[2] # t[3]}

\* lines 64-67: the first index k with |p - points[k]| < 1.0 on both axes,
\* 0 when there is none (landmarks are integers: line 14)
ResolveIndex(p, points) ==
    LET hits == {k \in 1..Len(points) :
                    /\ p[1] - points[k][1] < 1 /\ points[k][1] - p[1] < 1
                    /\ p[2] - points[k][2] < 1 /\ points[k][2] - p[2] < 1}
    IN  IF hits = {} THEN 0 ELSE SetMin(hits)

\* lines 52-69 for one triangle t of the list: the index triple appended,
\* or <<>> when nothing is appended
ResolveTriangle(t, rect, points) ==
    IF InRect(t[1], rect) /\ InRect(t[2], rect) /\ InRect(t[3], rect)
    THEN LET ind == [k \in 1..3 |-> ResolveIndex(t[k], points)]
         IN  IF \A k \in 1..3 : ind[k] # 0 THEN ind ELSE <<>>
    ELSE <<>>

\* the orders in which a finite set can be enumerated
RECURSIVE Orderings(_)
Orderings(S) ==
    IF S = {} THEN {<<>>}
    ELSE UNION {{<<x>> \o rest : rest \in Orderings(S \ {x})} : x \in S}

\* get_delaunay_triangles(rect, points): the lists it can return, one for
\* each order in which the library enumerates its faces.  Indices are
\* 1-based here (Python's k is ours minus one).
GetDelaunayTriangles(rect, points) ==
    LET kept == {ResolveTriangle(t, rect, points) : t \in TriangleList(rect, points)}
                \ {<<>>}
    IN  Orderings(kept)

(***************************************************************************)
(* Inputs of process_video                                                 *)
(***************************************************************************)
\* the decoded static image
StaticImage == [p \in Pixels |-> (p[1] + 2 * p[2]) % Levels]

\* the k-th frame of the target video
FrameImage(k) == [p \in Pixels |-> (2 * p[1] + p[2] + k) % Levels]

\* what the detector may return for the static image
StaticFaces ==
    {None,
     Landmarks(<<<<0, 0>>, <<2, 0>>, <<0, 2>>, <<2, 1>>>>),
     Landmarks(<<<<0, 0>>, <<2, 0>>, <<0, 2>>, <<-1, 1>>>>)}

\* what the detector may return for a frame of the video: no face; the
\* static image's landmarks; the second landmark moved (two destination
\* triangles then overlap); a landmark off the frame; the face left of the frame; one landmark fewer;
\* one landmark more
FrameFaces ==
    {None,
     Landmarks(<<<<0, 0>>, <<2, 0>>, <<0, 2>>, <<2, 1>>>>),
     Landmarks(<<<<0, 0>>, <<0, 1>>, <<0, 2>>, <<2, 1>>>>),
     Landmarks(<<<<0, 0>>, <<ImgW, 0>>, <<0, 2>>, <<2, 1>>>>),
     Landmarks(<<<<-3, 0>>, <<-2, 0>>, <<-3, 2>>, <<-2, 1>>>>),
     Landmarks(<<<<0, 0>>, <<2, 0>>, <<0, 2>>>>),
     Landmarks(<<<<0, 0>>, <<2, 0>>, <<0, 2>>, <<2, 1>>, <<1, 1>>>>)}

\* get_landmarks (lines 9-15) on an image that did or did not decode and
\* for which the detector answers `face`: cv2.cvtColor raises on None
GetLandmarks(decoded, face) ==
    IF decoded THEN [raised |-> "none", value |-> face]
    ELSE [raised |-> "cv2.error", value |-> None]

(***************************************************************************)
(* match_histograms on whole images                                        *)
(***************************************************************************)
\* channel.flatten(): row-major
Flatten(img) ==
    [k \in 1..(ImgW * ImgH) |-> img[<<(k - 1) % ImgW, (k - 1) \div ImgW>>]]

Unflatten(ch) == [p \in Pixels |-> ch[p[2] * ImgW + p[1] + 1]]

\* match_histograms(source, reference), lines 73-106
MatchHistograms(source, reference) ==
    Unflatten(MatchChannel(Flatten(source), Flatten(reference)))

(***************************************************************************)
(* process_video (lines 108-158)                                           *)
(***************************************************************************)
Videos == SeqsUpTo(FrameFaces, MaxFrames)

NoImage == [p \in Pixels |-> 0]
NoError == <<"none", "none">>

Init ==
    /\ pc = "start"
    /\ src_decodes \in BOOLEAN
    /\ src_face \in StaticFaces
    /\ video_opens \in BOOLEAN
    /\ video \in Videos
    /\ static_img = NoImage
    /\ static_landmarks = None
    /\ static_delaunay_tri = <<>>
    /\ cap = 0
    /\ frame = 0
    /\ frame_landmarks = None
    /\ warped_frame = NoImage
    /\ tri_idx = 0
    /\ written = <<>>
    /\ printed = <<>>
    /\ error = NoError
    /\ HistIdle

\* what every step of the frame loop leaves alone
LoopFrame == UNCHANGED <<src_decodes, src_face, video_opens, video, hvars>>

\* lines 109-111 when cv2.imread returns None: get_landmarks raises
LoadStaticUndecodable ==
    /\ pc = "start"
    /\ GetLandmarks(src_decodes, src_face).raised # "none"
    /\ printed' = Append(printed, "Loading static image...")
    /\ error' = <<GetLandmarks(src_decodes, src_face).raised, "get_landmarks">>
    /\ pc' = "crashed"
    /\ LoopFrame
    /\ UNCHANGED <<static_img, static_landmarks, static_delaunay_tri, cap, frame,
                   frame_landmarks, warped_frame, tri_idx, written>>

\* lines 109-114 when no landmarks are found in the static image
LoadStaticNoFace ==
    /\ pc = "start"
    /\ GetLandmarks(src_decodes, src_face).raised = "none"
    /\ ~GetLandmarks(src_decodes, src_face).value.found
    /\ static_img' = StaticImage
    /\ printed' = printed \o <<"Loading static image...",
                               "Error in detecting landmarks in static image.">>
    /\ pc' = "returned"
    /\ LoopFrame
    /\ UNCHANGED <<static_landmarks, static_delaunay_tri, cap, frame,
                   frame_landmarks, warped_frame, tri_idx, written, error>>

\* lines 109-112 when the static image has landmarks
LoadStatic ==
    /\ pc = "start"
    /\ GetLandmarks(src_decodes, src_face).raised = "none"
    /\ GetLandmarks(src_decodes, src_face).value.found
    /\ static_img' = StaticImage
    /\ static_landmarks' = GetLandmarks(src_decodes, src_face).value
    /\ printed' = Append(printed, "Loading static image...")
    /\ pc' = "triangulate"
    /\ LoopFrame
    /\ UNCHANGED <<static_delaunay_tri, cap, frame, frame_landmarks, warped_frame,
                   tri_idx, written, error>>

\* line 116
StaticRect == <<0, 0, ImgW, ImgH>>

\* lines 116-117 when subdiv.insert rejects a landmark outside static_rect
TriangulateRaises ==
    /\ pc = "triangulate"
    /\ \E k \in 1..Len(static_landmarks.points) :
          ~InRect(static_landmarks.points[k], StaticRect)
    /\ error' = <<"cv2.error", "get_delaunay_triangles">>
    /\ pc' = "crashed"
    /\ LoopFrame
    /\ UNCHANGED <<static_img, static_landmarks, static_delaunay_tri, cap, frame,
                   frame_landmarks, warped_frame, tri_idx, written, printed>>

\* lines 116-117
Triangulate ==
    /\ pc = "triangulate"
    /\ \A k \in 1..Len(static_landmarks.points) :
          InRect(static_landmarks.points[k], StaticRect)
    /\ static_delaunay_tri' \in GetDelaunayTriangles(StaticRect, static_landmarks.points)
    /\ pc' = "open"
    /\ LoopFrame
    /\ UNCHANGED <<static_img, static_landmarks, cap, frame, frame_landmarks,
                   warped_frame, tri_idx, written, printed, error>>

\* lines 119-123 when the video does not open
OpenVideoFails ==
    /\ pc = "open"
    /\ ~video_opens
    /\ printed' = printed \o <<"Opening video file...", "Error opening video file.">>
    /\ pc' = "returned"
    /\ LoopFrame
    /\ UNCHANGED <<static_img, static_landmarks, static_delaunay_tri, cap, frame,
                   frame_landmarks, warped_frame, tri_idx, written, error>>

\* lines 119-129 when the first cap.read() delivers nothing
OpenVideoEmpty ==
    /\ pc = "open"
    /\ video_opens
    /\ Len(video) = 0
    /\ printed' = printed \o <<"Opening video file...", "Error reading video file.">>
    /\ pc' = "returned"
    /\ LoopFrame
    /\ UNCHANGED <<static_img, static_landmarks, static_delaunay_tri, cap, frame,
                   frame_landmarks, warped_frame, tri_idx, written, error>>

\* lines 119-134: the first cap.read() delivers first_frame, of which only
\* the shape is used (lines 131-132)
OpenVideo ==
    /\ pc = "open"
    /\ video_opens
    /\ Len(video) > 0
    /\ cap' = 1
    /\ printed' = printed \o <<"Opening video file...", "Processing video...">>
    /\ pc' = "loop"
    /\ LoopFrame
    /\ UNCHANGED <<static_img, static_landmarks, static_delaunay_tri, frame,
                   frame_landmarks, warped_frame, tri_idx, written, error>>

\* lines 136-138 and 156-158: cap.read() reports the end of the video
EndOfVideo ==
    /\ pc = "loop"
    /\ cap >= Len(video)
    /\ printed' = Append(printed, "Video processing complete.")
    /\ pc' = "done"
    /\ LoopFrame
    /\ UNCHANGED <<static_img, static_landmarks, static_delaunay_tri, cap, frame,
                   frame_landmarks, warped_frame, tri_idx, written, error>>

\* lines 136-143: a frame without landmarks
SkipFrame ==
    /\ pc = "loop"
    /\ cap < Len(video)
    /\ ~GetLandmarks(TRUE, video[cap + 1]).value.found
    /\ cap' = cap + 1
    /\ frame' = cap + 1
    /\ frame_landmarks' = None
    /\ printed' = Append(printed, "Landmarks not detected in frame, skipping...")
    /\ LoopFrame
    /\ UNCHANGED <<pc, static_img, static_landmarks, static_delaunay_tri,
                   warped_frame, tri_idx, written, error>>

\* lines 136-145: a frame with landmarks
StartFrame ==
    /\ pc = "loop"
    /\ cap < Len(video)
    /\ GetLandmarks(TRUE, video[cap + 1]).value.found
    /\ cap' = cap + 1
    /\ frame' = cap + 1
    /\ frame_landmarks' = GetLandmarks(TRUE, video[cap + 1]).value
    /\ warped_frame' = FrameImage(cap + 1)
    /\ tri_idx' = 1
    /\ pc' = "warp"
    /\ LoopFrame
    /\ UNCHANGED <<static_img, static_landmarks, static_delaunay_tri, written,
                   printed, error>>

\* lines 147-148: a triangle's three points looked up in a landmark list
TriPoints(landmarks, tri_indices) ==
    <<landmarks[tri_indices[1]], landmarks[tri_indices[2]], landmarks[tri_indices[3]]>>

\* whether the lookups of line 148 stay inside the list
IndicesFit(landmarks, tri_indices) ==
    \A k \in 1..3 : tri_indices[k] <= Len(landmarks)

\* a plausible slip: the two images (and triangles) exchanged in the call
WarpCallSwapped(simg, wframe, tri1, tri2) ==
    LET r == WarpTriangles(wframe, simg, tri2, tri1)
    IN  [raised |-> r.raised, img1 |-> r.img2, img2 |-> r.img1]

\* line 149: warp_triangles(static_img, warped_frame, tri1, tri2)
WarpCall(simg, wframe, tri1, tri2) == WarpTriangles(simg, wframe, tri1, tri2)

\* lines 146-148 when frame_landmarks is too short for the triangle
WarpIndexError ==
    /\ pc = "warp"
    /\ tri_idx <= Len(static_delaunay_tri)
    /\ ~IndicesFit(frame_landmarks.points, static_delaunay_tri[tri_idx])
    /\ error' = <<"IndexError", "process_video">>
    /\ pc' = "crashed"
    /\ LoopFrame
    /\ UNCHANGED <<static_img, static_landmarks, static_delaunay_tri, cap, frame,
                   frame_landmarks, warped_frame, tri_idx, written, printed>>

\* lines 146-149 when warp_triangles raises
WarpRaises ==
    /\ pc = "warp"
    /\ tri_idx <= Len(static_delaunay_tri)
    /\ IndicesFit(frame_landmarks.points, static_delaunay_tri[tri_idx])
    /\ LET r == WarpCall(static_img, warped_frame,
                         TriPoints(static_landmarks.points, static_delaunay_tri[tri_idx]),
                         TriPoints(frame_landmarks.points, static_delaunay_tri[tri_idx]))
       IN  /\ r.raised # "none"
           /\ error' = <<r.raised, "warp_triangles">>
           /\ static_img' = r.img1
           /\ warped_frame' = r.img2
    /\ pc' = "crashed"
    /\ LoopFrame
    /\ UNCHANGED <<static_landmarks, static_delaunay_tri, cap, frame,
                   frame_landmarks, tri_idx, written, printed>>

\* lines 146-149: one triangle composited
WarpStep ==
    /\ pc = "warp"
    /\ tri_idx <= Len(static_delaunay_tri)
    /\ IndicesFit(frame_landmarks.points, static_delaunay_tri[tri_idx])
    /\ LET r == WarpCall(static_img, warped_frame,
                         TriPoints(static_landmarks.points, static_delaunay_tri[tri_idx]),
                         TriPoints(frame_landmarks.points, static_delaunay_tri[tri_idx]))
       IN  /\ r.raised = "none"
           /\ static_img' = r.img1
           /\ warped_frame' = r.img2
    /\ tri_idx' = tri_idx + 1
    /\ LoopFrame
    /\ UNCHANGED <<pc, static_landmarks, static_delaunay_tri, cap, frame,
                   frame_landmarks, written, printed, error>>

\* lines 151-154: color correction and write, after the last triangle
WriteFrame ==
    /\ pc = "warp"
    /\ tri_idx > Len(static_delaunay_tri)
    /\ written' = Append(written,
                         [index |-> frame,
                          image |-> MatchHistograms(warped_frame, FrameImage(frame))])
    /\ pc' = "loop"
    /\ LoopFrame
    /\ UNCHANGED <<static_img, static_landmarks, static_delaunay_tri, cap, frame,
                   frame_landmarks, warped_frame, tri_idx, printed, error>>

Next ==
    \/ LoadStaticUndecodable
    \/ LoadStaticNoFace
    \/ LoadStatic
    \/ TriangulateRaises
    \/ Triangulate
    \/ OpenVideoFails
    \/ OpenVideoEmpty
    \/ OpenVideo
    \/ EndOfVideo
    \/ SkipFrame
    \/ StartFrame
    \/ WarpIndexError
    \/ WarpRaises
    \/ WarpStep
    \/ WriteFrame

Spec == Init /\ [][Next]_vars

(***************************************************************************)
(* match_histograms alone, over every channel pair within the bounds       *)
(***************************************************************************)
ProcessIdle ==
    /\ pc = "idle"
    /\ src_decodes = TRUE
    /\ src_face = None
    /\ video_opens = TRUE
    /\ video = <<>>
    /\ static_img = NoImage
    /\ static_landmarks = None
    /\ static_delaunay_tri = <<>>
    /\ cap = 0
    /\ frame = 0
    /\ frame_landmarks = None
    /\ warped_frame = NoImage
    /\ tri_idx = 0
    /\ written = <<>>
    /\ printed = <<>>
    /\ error = NoError

InitHist == ProcessIdle /\ HistInit

NextHist ==
    \/ ComputeHistograms /\ UNCHANGED pvars
    \/ ScanStep /\ UNCHANGED pvars
    \/ AssignStep /\ UNCHANGED pvars
    \/ LutStep /\ UNCHANGED pvars

SpecHist == InitHist /\ [][NextHist]_vars

(***************************************************************************)
(* Properties                                                              *)
(***************************************************************************)
WrittenIndices == [k \in 1..Len(written) |-> written[k].index]

RECURSIVE IndicesWithLandmarks(_)
\* the frames 1..n of the video in which the detector finds landmarks
IndicesWithLandmarks(n) ==
    IF n = 0 THEN <<>>
    ELSE IF video[n].found THEN Append(IndicesWithLandmarks(n - 1), n)
    ELSE IndicesWithLandmarks(n - 1)

\* C1: when process_video completes, the written frames are exactly the
\* input frames in which landmarks were found, one each, in input order.
C1_WrittenAreFramesWithLandmarks ==
    pc = "done" => WrittenIndices = IndicesWithLandmarks(Len(video))

\* C2: an error raised while compositing one triangle (inside
\* warp_triangles) never aborts the run: the triangle is skipped.
C2_TriangleFailureSkipsTriangle ==
    ~(pc = "crashed" /\ error[2] = "warp_triangles")

\* frame k has landmarks, but not as many as the static image
Mismatched(k) ==
    /\ video[k].found
    /\ Len(video[k].points) # Len(static_landmarks.points)

\* C3: a frame whose landmark list differs in length from the static one is
\* skipped: no triangle is composited for it, nothing is written for it, and
\* the run goes on.
C3_MismatchedFrameSkipped ==
    (frame >= 1 /\ Mismatched(frame)) =>
        /\ pc \in {"loop", "warp", "done"}
        /\ pc = "warp" => tri_idx = 1
        /\ \A k \in 1..Len(written) : written[k].index # frame

FatalCondition ==
    \/ ~src_decodes
    \/ ~src_face.found
    \/ ~video_opens
    \/ Len(video) = 0

Reasons ==
    {"Error in detecting landmarks in static image.",
     "Error opening video file.",
     "Error reading video file."}

\* C4: under a fatal condition process_video never raises, never enters the
\* frame loop and writes nothing; where it stops, it has printed a reason.
C4_FatalHaltsWithReason ==
    FatalCondition =>
        /\ pc \in {"start", "triangulate", "open", "returned"}
        /\ written = <<>>
        /\ frame = 0
        /\ pc = "returned" => printed[Len(printed)] \in Reasons

\* C5: matching a channel against itself returns it unchanged.
C5_SelfMatchUnchanged ==
    (hpc = "done" /\ s_channel = r_channel) => matched_channel = s_channel

C5_Witness ==
    /\ hpc = "done"
    /\ s_channel = r_channel
    /\ \E k \in DOMAIN s_channel : s_channel[k] # s_channel[1]
    /\ \E v \in LevelSet : lookup_table[v] # v

\* the smallest reference level whose cdf reaches the source cdf at level v,
\* MaxLevel when there is none
SmallestLevel(rh, sh, v) ==
    LET reach == {gg \in LevelSet : Cum(rh, gg) * HistSum(sh) >= Cum(sh, v) * HistSum(rh)}
    IN  IF reach = {} THEN MaxLevel ELSE SetMin(reach)

\* C6: every entry the loop has stored is the smallest reference level whose
\* cdf reaches the source cdf of that entry's level (the clamp otherwise),
\* as a search from level 0 finds it.
C6_EntryIsSmallestLevel ==
    hpc \in {"scan", "done"} =>
        \A v \in 0..(i - 1) : lookup_table[v] = SmallestLevel(r_hist, s_hist, v)

C6_Witness ==
    /\ hpc = "done"
    /\ lookup_table[0] > 0
    /\ lookup_table[MaxLevel] > lookup_table[0]

\* C7: the entries stored so far are non-decreasing and lie in 0..MaxLevel.
C7_TableMonotone ==
    hpc \in {"scan", "done"} =>
        /\ \A v \in 0..(i - 2) : lookup_table[v] <= lookup_table[v + 1]
        /\ \A v \in LevelSet : lookup_table[v] \in LevelSet

C7_Witness ==
    /\ hpc = "done"
    /\ \E v \in 0..(MaxLevel - 1) : lookup_table[v] < lookup_table[v + 1]
    /\ \E v \in 0..(MaxLevel - 1) : lookup_table[v] = lookup_table[v + 1]

\* every triangle of the current frame has been composited
FrameWarped == pc = "warp" /\ tri_idx > Len(static_delaunay_tri)

RECURSIVE CompositeAll(_, _)
\* the canvas after compositing the triangles of `order` onto img, in order
CompositeAll(img, order) ==
    IF order = <<>> THEN img
    ELSE CompositeAll(
            WarpCall(static_img, img,
                     TriPoints(static_landmarks.points, Head(order)),
                     TriPoints(frame_landmarks.points, Head(order))).img2,
            Tail(order))

TriangleSet == {static_delaunay_tri[k] : k \in 1..Len(static_delaunay_tri)}

\* pixel p of the canvas lies under the mask of destination triangle tri2,
\* where line 43 places it
Covers(tri2, p) ==
    LET r2 == BoundingRect(tri2)
        v2 == RectView(r2)
    IN  /\ p[1] >= v2.x0 /\ p[1] < v2.x0 + v2.w
        /\ p[2] >= v2.y0 /\ p[2] < v2.y0 + v2.h
        /\ MaskAt(LocalTri(tri2, r2), p[1] - v2.x0, p[2] - v2.y0) = 1

\* the triangles, by position in the list, whose mask covers p
Covering(p) ==
    {k \in 1..Len(static_delaunay_tri) :
        Covers(TriPoints(frame_landmarks.points, static_delaunay_tri[k]), p)}

\* C8 as stated: the warped frame is the same for every order in which the
\* triangles could have been composited.
C8_OrderIrrelevant ==
    FrameWarped =>
        \A order \in Orderings(TriangleSet) :
            CompositeAll(FrameImage(frame), order) = warped_frame

\* C8 amended: each pixel of the warped frame has the value composited by
\* the last triangle of the list whose mask covers it, the frame's own value
\* where none does; so the order cannot change a pixel that at most one
\* mask covers.
C8_LastCoveringTriangleWins ==
    FrameWarped =>
        \A p \in Pixels :
            /\ Covering(p) = {} => warped_frame[p] = FrameImage(frame)[p]
            /\ Covering(p) # {} =>
                 warped_frame[p] =
                    CompositeAll(FrameImage(frame),
                                 <<static_delaunay_tri[SetMax(Covering(p))]>>)[p]
            /\ Cardinality(Covering(p)) <= 1 =>
                 \A order \in Orderings(TriangleSet) :
                    CompositeAll(FrameImage(frame), order)[p] = warped_frame[p]

C8_Witness ==
    /\ FrameWarped
    /\ \E p \in Pixels : Cardinality(Covering(p)) = 2
    /\ \E p \in Pixels : Cardinality(Covering(p)) = 1
    /\ \E order \in Orderings(TriangleSet) :
          CompositeAll(FrameImage(frame), order) # warped_frame

WarpIsLocalStep ==
    (pc = "warp" /\ tri_idx' = tri_idx + 1) =>
        LET tri2 == TriPoints(frame_landmarks.points, static_delaunay_tri[tri_idx])
        IN  /\ \A p \in Pixels :
                  (~InRect(p, BoundingRect(tri2)) \/ MaskAt(tri2, p[1], p[2]) = 0)
                     => warped_frame'[p] = warped_frame[p]
            /\ static_img' = static_img

\* C9: compositing one triangle leaves every canvas pixel outside the
\* destination triangle's bounding rectangle, and every pixel inside it but
\* outside the triangle, as it was, and leaves the static image as it was.
C9_WarpIsLocal == [][WarpIsLocalStep]_vars

StaticDataFixedStep ==
    pc \in {"open", "loop", "warp"} =>
        /\ static_img' = static_img /\ static_img = StaticImage
        /\ static_landmarks' = static_landmarks /\ static_landmarks = src_face
        /\ static_delaunay_tri' = static_delaunay_tri
        /\ static_delaunay_tri \in GetDelaunayTriangles(StaticRect, src_face.points)

\* C10: once computed, the static image, its landmarks and its triangulation
\* keep their values through every later step, whether a frame is
\* processed or skipped.
C10_StaticDataFixed == [][StaticDataFixedStep]_vars

C10_Witness ==
    /\ pc = "done"
    /\ Len(written) >= 1
    /\ Len(printed) > 0
    /\ \E k \in 1..Len(printed) :
          printed[k] = "Landmarks not detected in frame, skipping..."
    /\ static_delaunay_tri # <<>>

====
